---------------------------- MODULE Spec2Model ----------------------------
(***************************************************************************)
(* State-machine model of the Thread component of agent-chat-ui: the       *)
(* submit handlers (handleSubmit, handleLuckyClick), the two effects that   *)
(* react to stream snapshots, and the stream collaborator at its boundary. *)
(*                                                                         *)
(* The repository holds three editions of the component:                   *)
(*   "base"   src/src/components/thread/index.tsx                          *)
(*   "upload" src/unnamed/part_000  (attachments, contentBlocks)           *)
(*   "lucky"  src/unnamed/part_001  (handleLuckyClick)                     *)
(* One behaviour of the model runs one edition (variable variant).         *)
(*                                                                         *)
(* Texts are sequences of characters so that String.prototype.trim is      *)
(* computed, not assumed.  Message ids minted by uuidv4() are drawn from a  *)
(* counter (fresh, never reused).                                          *)
(***************************************************************************)
EXTENDS Naturals, Integers, Sequences, FiniteSets, TLC

VARIABLES
    variant,             \* which edition of the component runs
    input,               \* useState("") input buffer
    contentBlocks,       \* useFileUpload().contentBlocks (upload edition)
    firstTokenReceived,  \* useState(false)
    prevMessageLength,   \* useRef(0)
    lastError,           \* useRef<string | undefined>(undefined)
    artifactContext,     \* useArtifactContext()[0]
    threadId,            \* useQueryState("threadId")
    messages,            \* stream.messages (stream.values.messages)
    isLoading,           \* stream.isLoading
    error,               \* stream.error
    ui,                  \* stream.values.ui
    nextId,              \* supply of fresh ids (uuidv4)
    nextCall,            \* supply of fresh tool-call ids (agent side)
    dispatched,          \* number of stream.submit calls so far
    lastDispatch,        \* arguments of the latest stream.submit call
    streamContext,       \* stream.values.context
    toasts,              \* texts the latest run of the error effect
                         \* passed to toast.error
    delivered,           \* message texts of the errors the stream has set
                         \* since stream.error was last undefined
    notified,            \* texts passed to toast.error since stream.error
                         \* was last undefined
    fault,               \* what became of an exception in the latest run
                         \* of the error effect: "none", "caught", "escaped"
    lastOp               \* latest handler invoked and what it did

vars == <<variant, input, contentBlocks, firstTokenReceived, prevMessageLength,
          lastError, artifactContext, threadId, messages, isLoading, error,
          ui, nextId, nextCall, dispatched, lastDispatch, streamContext,
          toasts, delivered, notified, fault, lastOp>>

\* an exception that leaves an effect unmounts the component: no handler
\* and no effect of it runs any more
crashed == fault = "escaped"

---------------------------------------------------------------------------
(* Bounds of the model. *)

\* longest message sequence of a behaviour
MaxMessages == 4
\* longest message sequence drawn by InitAny
MaxAnyLen == 3
\* most UI payloads a snapshot carries
MaxUi == 3
\* most errors the stream sets before stream.error is undefined again
MaxErrors == 4
\* most submissions dispatched in one behaviour of SpecView
MaxRuns == 2

---------------------------------------------------------------------------
(* Values. *)

\* JavaScript undefined, for a string-valued cell
Undefined == "undefined"

\* characters String.prototype.trim strips
Whitespace == {" ", "\t", "\n"}

Hello == <<"h", "e", "l", "l", "o">>

\* what the user may type into the textarea: nothing, white space only,
\* a text with white space around it
Inputs == { <<>>, <<" ", "\n">>, <<" ">> \o Hello \o <<"\n">> }

\* what the upload hook may hold as pending attachment blocks
Uploads == { <<>>, <<[type |-> "image"]>> }

\* content of a synthesized tool result
SkippedText == <<"s", "k", "i", "p">>
\* content of a tool result produced by the agent service
ResultText == <<"o", "k">>

---------------------------------------------------------------------------
(* String.prototype.trim *)

RECURSIVE trimStart(_)
trimStart(s) ==
    IF s # <<>> /\ Head(s) \in Whitespace THEN trimStart(Tail(s)) ELSE s

RECURSIVE trimEnd(_)
trimEnd(s) ==
    IF s # <<>> /\ s[Len(s)] \in Whitespace
    THEN trimEnd(SubSeq(s, 1, Len(s) - 1))
    ELSE s

trim(s) == trimEnd(trimStart(s))

---------------------------------------------------------------------------
(* Messages.  content is held as the text it carries and the attachment    *)
(* blocks that follow it.                                                  *)

Msg(id, type, text, blocks, calls, callId) ==
    [id |-> id, type |-> type, text |-> text, blocks |-> blocks,
     tool_calls |-> calls, tool_call_id |-> callId]

\* tool_call_id 0: the message is not a tool message
HumanMsg(id, text, blocks) == Msg(id, "human", text, blocks, <<>>, 0)
AiMsg(id, calls) == Msg(id, "ai", <<>>, <<>>, calls, 0)
ToolMsg(id, text, callId) == Msg(id, "tool", text, <<>>, <<>>, callId)

---------------------------------------------------------------------------
(* Tool-Response Reconciler (lib/ensure-tool-responses).                   *)

\* a faulty scan that looks at the latest message only: its calls are
\* outstanding when it is an ai message (C3)
outstandingCallsLastOnly(msgs, i, outstanding) ==
    IF msgs # <<>> /\ msgs[Len(msgs)].type = "ai"
    THEN msgs[Len(msgs)].tool_calls
    ELSE <<>>

\* one pass over the sequence: an ai message adds its calls to the
\* outstanding list, a tool message removes its tool_call_id from it
RECURSIVE outstandingCalls(_, _, _)
outstandingCalls(msgs, i, outstanding) ==
    IF i > Len(msgs) THEN outstanding
    ELSE IF msgs[i].type = "ai"
         THEN outstandingCalls(msgs, i + 1, outstanding \o msgs[i].tool_calls)
    ELSE IF msgs[i].type = "tool"
         THEN outstandingCalls(msgs, i + 1,
                  SelectSeq(outstanding, LAMBDA c : c # msgs[i].tool_call_id))
    ELSE outstandingCalls(msgs, i + 1, outstanding)

\* one synthetic tool message per outstanding call, in call order, each
\* with a fresh id starting at firstId
ensureToolCallsHaveResponses(msgs, firstId) ==
    LET out == outstandingCalls(msgs, 1, <<>>)
    IN  [k \in 1..Len(out) |-> ToolMsg(firstId + k - 1, SkippedText, out[k])]

---------------------------------------------------------------------------
(* Values of the stream and of the artifact side channel.                  *)

\* stream.error absent
NoError == [id |-> 0, message |-> Undefined]

\* texts an error object may carry; Undefined: the object has no message
ErrorTexts == {"E1", "E2", "", Undefined}

\* artifact context mappings, as sets of <<key, value>> pairs
Contexts == { {}, {<<"k", "v">>} }

\* the context option handed to stream.submit: undefined or a mapping
NoContext == [defined |-> FALSE, value |-> {}]

\* reserved name of a full-screen UI payload (index.tsx:73)
MarkerName == "llm-ui"
UiNames == {MarkerName, "other"}

\* the lucky prompts (two of the twenty, by their first word)
luckyPrompts ==
    << <<"C", "r", "e", "a", "t", "e">>, <<"D", "e", "s", "i", "g", "n">> >>

\* numbers of tool calls one ai message may emit
CallCounts == {0, 1, 2}

\* stream.values.ui absent
NoUi == [defined |-> FALSE, items |-> <<>>]

NoDispatch ==
    [base |-> <<>>, messages |-> <<>>, context |-> NoContext,
     streamMode |-> <<>>, projected |-> <<>>]

---------------------------------------------------------------------------
(* Faulty variants of the pieces below.  Each one is a plausible slip in   *)
(* the handler; the property named with it does not survive it.            *)

\* the early return without trim: white space counts as text (C7)
rejectsSubmitNoTrim(inp, loading) == Len(inp) = 0 \/ loading

\* the early return that also refuses while the stream holds an error (C9)
rejectsSubmitAfterError(inp, loading) ==
    Len(trim(inp)) = 0 \/ loading \/ error # NoError

\* the lucky-prompt button without its early return (C8)
rejectsLuckyNever(loading) == FALSE

\* the context handed over whatever its size (C10)
contextAlways(ac) == [defined |-> TRUE, value |-> ac]

\* the synthetic tool results left out of the dispatch (C1)
submitMessagesHumanOnly(toolMessages, human) == <<human>>

\* the human message put before the synthetic tool results (C2)
submitMessagesHumanFirst(toolMessages, human) == <<human>> \o toolMessages

\* the human message dispatched twice (C5)
submitMessagesHumanTwice(toolMessages, human) ==
    toolMessages \o <<human, human>>

\* the synthetic tool results left out of the projection (C4)
optimisticValuesNoTools(prev, toolMessages, human, ctx) ==
    [prev EXCEPT !.context = ctx,
                 !.messages = prev.messages \o <<human>>]

\* the projection that drops prev.messages (C6)
optimisticValuesReplace(prev, toolMessages, human, ctx) ==
    [prev EXCEPT !.context = ctx,
                 !.messages = toolMessages \o <<human>>]

---------------------------------------------------------------------------
(* The pieces of handleSubmit / handleLuckyClick.                          *)

\* index.tsx:163 (part_001:168): the early return
rejectsSubmit(inp, loading) == Len(trim(inp)) = 0 \/ loading

\* part_000:180: the early return of the upload edition
rejectsSubmitUpload(inp, blocks, loading) ==
    (Len(trim(inp)) = 0 /\ Len(blocks) = 0) \/ loading

\* part_001:202: the early return of handleLuckyClick
rejectsLucky(loading) == loading

\* index.tsx:166-170: content is input.trim()
newHumanMessage(id, inp) == HumanMsg(id, trim(inp), <<>>)

\* part_000:184-191: a text block holding input as typed when its trim is
\* not empty, then the attachment blocks
newHumanMessageUpload(id, inp, blocks) ==
    HumanMsg(id, IF Len(trim(inp)) > 0 THEN inp ELSE <<>>, blocks)

\* part_001:211-215: content is the prompt drawn
newHumanMessageLucky(id, randomPrompt) == HumanMsg(id, randomPrompt, <<>>)

\* index.tsx:174-175
context(ac) ==
    IF Cardinality(ac) > 0 THEN [defined |-> TRUE, value |-> ac] ELSE NoContext

\* index.tsx:178: the messages handed to stream.submit
submitMessages(toolMessages, human) == toolMessages \o <<human>>

\* optimisticValues with tool results of its own, minted with other ids
\* than the ones dispatched (C24)
optimisticValuesOwnResults(prev, toolMessages, human, ctx) ==
    [prev EXCEPT
        !.context = ctx,
        !.messages =
            prev.messages
            \o [k \in 1..Len(toolMessages) |->
                   [toolMessages[k] EXCEPT !.id = @ + Len(toolMessages) + 1]]
            \o <<human>>]

\* index.tsx:181-189: optimisticValues applied to prev
optimisticValues(prev, toolMessages, human, ctx) ==
    [prev EXCEPT !.context = ctx,
                 !.messages = prev.messages \o toolMessages \o <<human>>]

---------------------------------------------------------------------------
(* The two effects.                                                        *)

\* the effect on [messages] without the comparison of lengths (C22)
firstTokenEffectNoLength(msgs, prevLen, ftr) ==
    IF Len(msgs) # 0 /\ msgs[Len(msgs)].type = "ai"
    THEN TRUE
    ELSE ftr

\* index.tsx:149-159: the value of firstTokenReceived after the effect on
\* [messages] ran with previous length prevLen
firstTokenEffect(msgs, prevLen, ftr) ==
    IF Len(msgs) # prevLen /\ Len(msgs) # 0 /\ msgs[Len(msgs)].type = "ai"
    THEN TRUE
    ELSE ftr

\* the error effect that notifies without writing lastError.current (C12)
errorEffectNoRecord(err, last, throws) ==
    IF err = NoError
    THEN [lastError |-> Undefined, toasts |-> <<>>, fault |-> "none"]
    ELSE IF err.message \in {"", Undefined} \/ last = err.message
         THEN [lastError |-> last, toasts |-> <<>>, fault |-> "none"]
         ELSE [lastError |-> last, toasts |-> <<err.message>>,
               fault |-> IF throws THEN "caught" ELSE "none"]

\* the error effect without the comparison with lastError.current (C13)
errorEffectNoDedup(err, last, throws) ==
    IF err = NoError
    THEN [lastError |-> Undefined, toasts |-> <<>>, fault |-> "none"]
    ELSE IF err.message \in {"", Undefined}
         THEN [lastError |-> last, toasts |-> <<>>, fault |-> "none"]
         ELSE [lastError |-> err.message, toasts |-> <<err.message>>,
               fault |-> IF throws THEN "caught" ELSE "none"]

\* the error effect that leaves lastError.current as it is when the stream
\* has no error (C14)
errorEffectNoClear(err, last, throws) ==
    IF err = NoError
    THEN [lastError |-> last, toasts |-> <<>>, fault |-> "none"]
    ELSE IF err.message \in {"", Undefined} \/ last = err.message
         THEN [lastError |-> last, toasts |-> <<>>, fault |-> "none"]
         ELSE [lastError |-> err.message, toasts |-> <<err.message>>,
               fault |-> IF throws THEN "caught" ELSE "none"]

\* the error effect that writes lastError.current only while it is
\* undefined (C15)
errorEffectFirstOnly(err, last, throws) ==
    IF err = NoError
    THEN [lastError |-> Undefined, toasts |-> <<>>, fault |-> "none"]
    ELSE IF err.message \in {"", Undefined} \/ last = err.message
         THEN [lastError |-> last, toasts |-> <<>>, fault |-> "none"]
         ELSE [lastError |-> IF last = Undefined THEN err.message ELSE last,
               toasts |-> <<err.message>>,
               fault |-> IF throws THEN "caught" ELSE "none"]

\* the error effect that compares with lastError.current only when the
\* error object is the first of two (C16)
errorEffectDedupOdd(err, last, throws) ==
    IF err = NoError
    THEN [lastError |-> Undefined, toasts |-> <<>>, fault |-> "none"]
    ELSE IF err.message \in {"", Undefined}
            \/ (err.id = 1 /\ last = err.message)
         THEN [lastError |-> last, toasts |-> <<>>, fault |-> "none"]
         ELSE [lastError |-> err.message, toasts |-> <<err.message>>,
               fault |-> IF throws THEN "caught" ELSE "none"]

\* the error effect without its try/catch: what toast.error throws leaves
\* the effect (C18)
errorEffectNoCatch(err, last, throws) ==
    IF err = NoError
    THEN [lastError |-> Undefined, toasts |-> <<>>, fault |-> "none"]
    ELSE IF err.message \in {"", Undefined} \/ last = err.message
         THEN [lastError |-> last, toasts |-> <<>>, fault |-> "none"]
         ELSE [lastError |-> err.message, toasts |-> <<err.message>>,
               fault |-> IF throws THEN "escaped" ELSE "none"]

\* the error effect that clears lastError.current for an error without
\* message text (C25)
errorEffectBlankClears(err, last, throws) ==
    IF err = NoError \/ err.message \in {"", Undefined}
    THEN [lastError |-> Undefined, toasts |-> <<>>, fault |-> "none"]
    ELSE IF last = err.message
         THEN [lastError |-> last, toasts |-> <<>>, fault |-> "none"]
         ELSE [lastError |-> err.message, toasts |-> <<err.message>>,
               fault |-> IF throws THEN "caught" ELSE "none"]

\* index.tsx:119-145: lastError.current after the effect on [stream.error]
\* ran, the texts it passed to toast.error, and what became of an
\* exception; throws: toast.error threw (caught at line 142, after
\* lastError.current was written at line 132)
errorEffect(err, last, throws) ==
    IF err = NoError
    THEN [lastError |-> Undefined, toasts |-> <<>>, fault |-> "none"]
    ELSE IF err.message \in {"", Undefined} \/ last = err.message
         THEN [lastError |-> last, toasts |-> <<>>, fault |-> "none"]
         ELSE [lastError |-> err.message, toasts |-> <<err.message>>,
               fault |-> IF throws THEN "caught" ELSE "none"]

\* the effect on [messages] after the stream delivered msgs
messagesEffect(msgs, ftr) ==
    /\ firstTokenReceived' = firstTokenEffect(msgs, prevMessageLength, ftr)
    /\ prevMessageLength' = Len(msgs)

\* the effect on [stream.error] after stream.error became err
runErrorEffect(err, throws) ==
    LET out == errorEffect(err, lastError, throws)
    IN  /\ lastError' = out.lastError
        /\ toasts' = out.toasts
        /\ delivered' = IF err = NoError THEN <<>>
                         ELSE Append(delivered, err.message)
        /\ notified' = IF err = NoError THEN <<>>
                        ELSE notified \o out.toasts
        /\ fault' = out.fault

---------------------------------------------------------------------------
(* stream.submit (index.tsx:177-191) as the stream provider answers it:    *)
(* the run starts loading with its error cleared and the optimistic values *)
(* are applied at once to the current values.                              *)

streamSubmit(toolMessages, human, ctx) ==
    LET prev == [messages |-> messages, ui |-> ui, context |-> streamContext]
        next == optimisticValues(prev, toolMessages, human, ctx)
    IN  /\ Len(messages) < MaxMessages
        /\ dispatched' = dispatched + 1
        /\ lastDispatch' = [base |-> messages,
                            messages |-> submitMessages(toolMessages, human),
                            context |-> ctx,
                            streamMode |-> <<"values">>,
                            projected |-> next.messages]
        /\ messages' = next.messages
        /\ ui' = next.ui
        /\ streamContext' = next.context
        /\ isLoading' = TRUE
        /\ error' = NoError
        /\ nextId' = nextId + 1 + Len(toolMessages)
        /\ messagesEffect(next.messages, FALSE)
        /\ IF error # NoError
           THEN runErrorEffect(NoError, FALSE)
           ELSE UNCHANGED <<lastError, toasts, delivered, notified, fault>>

\* a handler ran: its name, whether it went past its early return and, when
\* it did, the name of the step before it
Op(name, accepted) ==
    [op |-> name, accepted |-> accepted,
     after |-> IF accepted THEN lastOp.op ELSE "other"]

\* index.tsx:161-194 and part_001:166-199
handleSubmit ==
    /\ ~crashed
    /\ variant \in {"base", "lucky"}
    /\ IF rejectsSubmit(input, isLoading)
       THEN /\ lastOp' = Op("handleSubmit", FALSE)
            /\ UNCHANGED <<variant, input, contentBlocks, firstTokenReceived,
                           prevMessageLength, lastError, artifactContext,
                           threadId, messages, isLoading, error, ui, nextId,
                           nextCall, dispatched, lastDispatch, streamContext, toasts, delivered, notified, fault>>
       ELSE /\ streamSubmit(ensureToolCallsHaveResponses(messages, nextId + 1),
                            newHumanMessage(nextId, input),
                            context(artifactContext))
            /\ input' = <<>>
            /\ lastOp' = Op("handleSubmit", TRUE)
            /\ UNCHANGED <<variant, contentBlocks, artifactContext, threadId,
                           nextCall>>

\* part_000:178-216
handleSubmitUpload ==
    /\ ~crashed
    /\ variant = "upload"
    /\ IF rejectsSubmitUpload(input, contentBlocks, isLoading)
       THEN /\ lastOp' = Op("handleSubmit", FALSE)
            /\ UNCHANGED <<variant, input, contentBlocks, firstTokenReceived,
                           prevMessageLength, lastError, artifactContext,
                           threadId, messages, isLoading, error, ui, nextId,
                           nextCall, dispatched, lastDispatch, streamContext, toasts, delivered, notified, fault>>
       ELSE /\ streamSubmit(ensureToolCallsHaveResponses(messages, nextId + 1),
                            newHumanMessageUpload(nextId, input, contentBlocks),
                            context(artifactContext))
            /\ input' = <<>>
            /\ contentBlocks' = <<>>
            /\ lastOp' = Op("handleSubmit", TRUE)
            /\ UNCHANGED <<variant, artifactContext, threadId, nextCall>>

\* part_001:201-237
handleLuckyClick ==
    /\ ~crashed
    /\ variant = "lucky"
    /\ IF rejectsLucky(isLoading)
       THEN /\ lastOp' = Op("handleLuckyClick", FALSE)
            /\ UNCHANGED <<variant, input, contentBlocks, firstTokenReceived,
                           prevMessageLength, lastError, artifactContext,
                           threadId, messages, isLoading, error, ui, nextId,
                           nextCall, dispatched, lastDispatch, streamContext, toasts, delivered, notified, fault>>
       ELSE \E randomIndex \in 1..Len(luckyPrompts) :
            /\ streamSubmit(ensureToolCallsHaveResponses(messages, nextId + 1),
                            newHumanMessageLucky(nextId,
                                                 luckyPrompts[randomIndex]),
                            context(artifactContext))
            /\ lastOp' = Op("handleLuckyClick", TRUE)
            /\ UNCHANGED <<variant, input, contentBlocks, artifactContext,
                           threadId, nextCall>>

---------------------------------------------------------------------------
(* The main content area *)

\* index.tsx:75: nothing is rendered full screen
NoComponent == [id |-> 0, name |-> Undefined]

\* index.tsx:73: ui => ui.name === "llm-ui"
isCustomComponent(p) == p.name = MarkerName

\* index.tsx:73: values.ui?.filter(ui => ui.name === "llm-ui") || []
customComponents(u) ==
    IF u.defined THEN SelectSeq(u.items, isCustomComponent) ELSE <<>>

\* FullScreenCustomComponents that shows the first custom component (C19)
FullScreenCustomComponentsFirst(u) ==
    IF Len(customComponents(u)) = 0
    THEN NoComponent
    ELSE customComponents(u)[1]

\* index.tsx:67-90: the payload FullScreenCustomComponents renders, or
\* NoComponent where it returns null
FullScreenCustomComponents(u) ==
    IF Len(customComponents(u)) = 0
    THEN NoComponent
    ELSE customComponents(u)[Len(customComponents(u))]

\* chatStarted that looks at the thread id only (C21)
chatStartedThreadOnly == threadId # "null"

\* index.tsx:196
chatStarted == threadId # "null" \/ Len(messages) # 0

\* hasCustomUI that looks at the last payload only (C20)
hasCustomUILast ==
    /\ ui.defined
    /\ Len(ui.items) > 0
    /\ ui.items[Len(ui.items)].name = MarkerName

\* index.tsx:199: stream.values?.ui?.some(ui => ui.name === "llm-ui") || false
hasCustomUI ==
    /\ ui.defined
    /\ \E i \in 1..Len(ui.items) : ui.items[i].name = MarkerName

\* index.tsx:310-335 (part_000:332-357, part_001:350-455): which content
\* the main area renders, and the payload it shows
mainContent ==
    IF hasCustomUI
    THEN [mode |-> "FullScreen", shown |-> FullScreenCustomComponents(ui)]
    ELSE IF ~chatStarted
         THEN [mode |-> "Empty", shown |-> NoComponent]
         ELSE IF isLoading /\ ~firstTokenReceived
              THEN [mode |-> "AwaitingFirstToken", shown |-> NoComponent]
              ELSE [mode |-> "Streaming/Idle", shown |-> NoComponent]

---------------------------------------------------------------------------
(* The user and the collaborators.                                         *)

Other == [op |-> "other", accepted |-> FALSE, after |-> "other"]
Ended(how) == [op |-> how, accepted |-> FALSE, after |-> "other"]
\* a step of the error path and the text lastError.current held before it
Noted(how, text) == [op |-> how, accepted |-> FALSE, after |-> text]

\* onChange of the textarea (index.tsx:350)
setInput(text) ==
    /\ ~crashed
    /\ text # input
    /\ input' = text
    /\ lastOp' = Other
    /\ UNCHANGED <<variant, contentBlocks, firstTokenReceived,
                   prevMessageLength, lastError, artifactContext, threadId,
                   messages, isLoading, error, ui, nextId, nextCall,
                   dispatched, lastDispatch, streamContext, toasts, delivered, notified, fault>>

\* part_000:111-118, 424: the upload hook adds or removes blocks
handleFileUpload(blocks) ==
    /\ ~crashed
    /\ variant = "upload"
    /\ blocks # contentBlocks
    /\ contentBlocks' = blocks
    /\ lastOp' = Other
    /\ UNCHANGED <<variant, input, firstTokenReceived, prevMessageLength,
                   lastError, artifactContext, threadId, messages, isLoading,
                   error, ui, nextId, nextCall, dispatched, lastDispatch,
                   streamContext, toasts, delivered, notified, fault>>

\* the artifact collaborator writes its context (index.tsx:93)
setArtifactContext(ctx) ==
    /\ ~crashed
    /\ ctx # artifactContext
    /\ artifactContext' = ctx
    /\ lastOp' = Other
    /\ UNCHANGED <<variant, input, contentBlocks, firstTokenReceived,
                   prevMessageLength, lastError, threadId, messages,
                   isLoading, error, ui, nextId, nextCall, dispatched,
                   lastDispatch, streamContext, toasts, delivered, notified, fault>>

\* the stream provider on a change of the thread id it is keyed by: the
\* first snapshot of the new conversation has no message, no UI payload,
\* no error and is not loading; both effects run on it
conversationChanged ==
    /\ messages' = <<>>
    /\ ui' = NoUi
    /\ streamContext' = NoContext
    /\ isLoading' = FALSE
    /\ error' = NoError
    /\ messagesEffect(<<>>, firstTokenReceived)
    /\ IF error # NoError
       THEN runErrorEffect(NoError, FALSE)
       ELSE UNCHANGED <<lastError, toasts, delivered, notified, fault>>

\* index.tsx:111-117, called with null by the logo and by "New thread":
\* the query parameter is set, the artifact is closed and its context reset
setThreadId ==
    /\ ~crashed
    /\ threadId' = "null"
    /\ artifactContext' = {}
    /\ lastOp' = IF threadId # "null"
                 THEN Noted("setThreadId", lastError)
                 ELSE Other
    /\ IF threadId # "null"
       THEN conversationChanged
       ELSE UNCHANGED <<messages, ui, streamContext, isLoading, error,
                        firstTokenReceived, prevMessageLength, lastError,
                        toasts, delivered, notified, fault>>
    /\ UNCHANGED <<variant, input, contentBlocks, nextId, nextCall,
                   dispatched, lastDispatch>>

\* the stop button that is shown only once a token was received (C23)
stopShownAfterFirstToken == isLoading /\ firstTokenReceived

\* index.tsx:368-380, part_000:429-441: the form is always rendered and
\* holds the stop button while stream.isLoading; part_001:396-408, 459,
\* 490-502: the form is the one of the welcome content (no custom UI and
\* chat not started) or the bottom one (chat started)
stopShown ==
    /\ isLoading
    /\ variant = "lucky" => (chatStarted \/ ~hasCustomUI)

\* index.tsx:371: the stop button calls stream.stop()
stop ==
    /\ ~crashed
    /\ stopShown
    /\ isLoading' = FALSE
    /\ lastOp' = Ended("stop")
    /\ UNCHANGED <<variant, input, contentBlocks, firstTokenReceived,
                   prevMessageLength, lastError, artifactContext, threadId,
                   messages, error, ui, nextId, nextCall, dispatched,
                   lastDispatch, streamContext, toasts, delivered, notified, fault>>

\* the provider reports the id of the thread the run created
ChannelThreadId ==
    /\ ~crashed
    /\ isLoading
    /\ threadId = "null"
    /\ threadId' = "t1"
    /\ lastOp' = Other
    /\ UNCHANGED <<variant, input, contentBlocks, firstTokenReceived,
                   prevMessageLength, lastError, artifactContext, messages,
                   isLoading, error, ui, nextId, nextCall, dispatched,
                   lastDispatch, streamContext, toasts, delivered, notified, fault>>

\* a snapshot whose messages end with a new ai message emitting n calls
ChannelAi(n) ==
    /\ ~crashed
    /\ isLoading
    /\ Len(messages) < MaxMessages
    /\ LET calls == [k \in 1..n |-> nextCall + k - 1]
           msgs == Append(messages, AiMsg(nextId, calls))
       IN  /\ messages' = msgs
           /\ messagesEffect(msgs, firstTokenReceived)
    /\ nextId' = nextId + 1
    /\ nextCall' = nextCall + n
    /\ lastOp' = Other
    /\ UNCHANGED <<variant, input, contentBlocks, artifactContext, threadId,
                   isLoading, error, ui, dispatched, lastDispatch,
                   streamContext, lastError, toasts, delivered, notified, fault>>

\* a snapshot whose messages lack the i-th message shown and end with a new
\* ai message: a sequence of the same length
ChannelAiWithout(i) ==
    /\ ~crashed
    /\ isLoading
    /\ i \in 1..Len(messages)
    /\ messages[Len(messages)].type # "ai"
    /\ LET msgs == SubSeq(messages, 1, i - 1)
                   \o SubSeq(messages, i + 1, Len(messages))
                   \o <<AiMsg(nextId, <<>>)>>
       IN  /\ messages' = msgs
           /\ messagesEffect(msgs, firstTokenReceived)
    /\ nextId' = nextId + 1
    /\ lastOp' = Noted("ChannelAiWithout",
                       IF isLoading /\ ~firstTokenReceived
                       THEN "waiting" ELSE "other")
    /\ UNCHANGED <<variant, input, contentBlocks, artifactContext, threadId,
                   isLoading, error, ui, nextCall, dispatched, lastDispatch,
                   streamContext, lastError, toasts, delivered, notified, fault>>

\* a snapshot whose messages end with the result of an outstanding call
ChannelTool(c) ==
    /\ ~crashed
    /\ isLoading
    /\ Len(messages) < MaxMessages
    /\ LET msgs == Append(messages, ToolMsg(nextId, ResultText, c))
       IN  /\ messages' = msgs
           /\ messagesEffect(msgs, firstTokenReceived)
    /\ nextId' = nextId + 1
    /\ lastOp' = Other
    /\ UNCHANGED <<variant, input, contentBlocks, artifactContext, threadId,
                   isLoading, error, ui, nextCall, dispatched, lastDispatch,
                   streamContext, lastError, toasts, delivered, notified, fault>>

\* an id no payload of the list carries
freshUiId(u) ==
    CHOOSE k \in 1..MaxUi :
        /\ \A i \in 1..Len(u.items) : u.items[i].id # k
        /\ \A l \in 1..(k - 1) : \E i \in 1..Len(u.items) : u.items[i].id = l

\* a snapshot carrying one more UI payload
ChannelUi(name) ==
    /\ ~crashed
    /\ isLoading
    /\ Len(ui.items) < MaxUi
    /\ ui' = [defined |-> TRUE,
              items |-> Append(ui.items,
                               [id |-> freshUiId(ui), name |-> name])]
    /\ lastOp' = Other
    /\ UNCHANGED <<variant, input, contentBlocks, firstTokenReceived,
                   prevMessageLength, lastError, artifactContext, threadId,
                   messages, isLoading, error, nextId, nextCall, dispatched,
                   lastDispatch, streamContext, toasts, delivered, notified, fault>>

\* a snapshot whose values.ui no longer holds the i-th payload
ChannelUiRemoved(i) ==
    /\ ~crashed
    /\ isLoading
    /\ ui.defined
    /\ i \in 1..Len(ui.items)
    /\ ui' = [defined |-> TRUE,
              items |-> SubSeq(ui.items, 1, i - 1)
                        \o SubSeq(ui.items, i + 1, Len(ui.items))]
    /\ lastOp' = Other
    /\ UNCHANGED <<variant, input, contentBlocks, firstTokenReceived,
                   prevMessageLength, lastError, artifactContext, threadId,
                   messages, isLoading, error, nextId, nextCall, dispatched,
                   lastDispatch, streamContext, toasts, delivered, notified, fault>>

\* the run ends
ChannelDone ==
    /\ ~crashed
    /\ isLoading
    /\ isLoading' = FALSE
    /\ lastOp' = Other
    /\ UNCHANGED <<variant, input, contentBlocks, firstTokenReceived,
                   prevMessageLength, lastError, artifactContext, threadId,
                   messages, error, ui, nextId, nextCall, dispatched,
                   lastDispatch, streamContext, toasts, delivered, notified, fault>>

\* the run fails: a snapshot carrying a new error object
ChannelFail(text, throws) ==
    /\ ~crashed
    /\ isLoading
    /\ Len(delivered) < MaxErrors
    /\ LET err == [id |-> IF error.id = 1 THEN 2 ELSE 1, message |-> text]
       IN  /\ error' = err
           /\ runErrorEffect(err, throws)
    /\ isLoading' = FALSE
    /\ lastOp' = Ended("ChannelFail")
    /\ UNCHANGED <<variant, input, contentBlocks, firstTokenReceived,
                   prevMessageLength, artifactContext, threadId, messages,
                   ui, nextId, nextCall, dispatched, lastDispatch,
                   streamContext>>

\* a snapshot carrying a new error object, from the run or from the
\* loading of the thread, whatever error the stream held before
ChannelError(text, throws) ==
    /\ ~crashed
    /\ Len(delivered) < MaxErrors
    /\ LET err == [id |-> IF error.id = 1 THEN 2 ELSE 1, message |-> text]
       IN  /\ error' = err
           /\ runErrorEffect(err, throws)
    /\ lastOp' = IF lastOp.op = "setThreadId"
                 THEN Noted("ChannelErrorInNewThread", lastOp.after)
                 ELSE IF lastOp.op = "ChannelErrorCleared"
                      THEN Noted("ChannelErrorAfterCleared", lastOp.after)
                      ELSE Noted("ChannelError", lastError)
    /\ UNCHANGED <<variant, input, contentBlocks, firstTokenReceived,
                   prevMessageLength, artifactContext, threadId, messages,
                   isLoading, ui, nextId, nextCall, dispatched,
                   lastDispatch, streamContext>>

\* a snapshot without error after one that carried an error
ChannelErrorCleared ==
    /\ ~crashed
    /\ error # NoError
    /\ error' = NoError
    /\ runErrorEffect(NoError, FALSE)
    /\ lastOp' = Noted("ChannelErrorCleared", lastError)
    /\ UNCHANGED <<variant, input, contentBlocks, firstTokenReceived,
                   prevMessageLength, artifactContext, threadId, messages,
                   isLoading, ui, nextId, nextCall, dispatched,
                   lastDispatch, streamContext>>

---------------------------------------------------------------------------
(* The component from its first render.                                    *)

Init ==
    /\ variant \in {"base", "upload", "lucky"}
    /\ input = <<>>
    /\ contentBlocks = <<>>
    /\ firstTokenReceived = FALSE
    /\ prevMessageLength = 0
    /\ lastError = Undefined
    /\ artifactContext = {}
    /\ threadId = "null"
    /\ messages = <<>>
    /\ isLoading = FALSE
    /\ error = NoError
    /\ ui = NoUi
    /\ nextId = 1
    /\ nextCall = 1
    /\ dispatched = 0
    /\ lastDispatch = NoDispatch
    /\ streamContext = NoContext
    /\ toasts = <<>>
    /\ delivered = <<>>
    /\ notified = <<>>
    /\ fault = "none"
    /\ lastOp = Other

\* a tool call the agent service still has to answer
Outstanding == { outstandingCalls(messages, 1, <<>>)[k] :
                   k \in 1..Len(outstandingCalls(messages, 1, <<>>)) }

\* the submission path: the user types, attaches and submits; the artifact
\* writes its context; the stream appends messages, ends, fails or is
\* stopped
Next ==
    \/ handleSubmit
    \/ handleSubmitUpload
    \/ handleLuckyClick
    \/ \E text \in Inputs : setInput(text)
    \/ \E blocks \in Uploads : handleFileUpload(blocks)
    \/ \E ctx \in Contexts : setArtifactContext(ctx)
    \/ stop
    \/ \E n \in CallCounts : ChannelAi(n)
    \/ \E c \in Outstanding : ChannelTool(c)
    \/ ChannelDone
    \/ ChannelFail("E1", FALSE)

Spec == Init /\ [][Next]_vars

---------------------------------------------------------------------------
(* The submit handlers started on an arbitrary message sequence: any       *)
(* sequence of human, ai and tool messages, call ids repeated, answered    *)
(* twice, answered before they are emitted or never answered.              *)

AnyCallLists == { <<>>, <<1>>, <<2>>, <<1, 2>>, <<1, 1>> }

AnyTemplates ==
    {HumanMsg(0, Hello, <<>>)}
        \cup {AiMsg(0, calls) : calls \in AnyCallLists}
        \cup {ToolMsg(0, ResultText, c) : c \in {1, 2}}

\* the message ids of a sequence are its positions
WithIds(f) == [i \in DOMAIN f |-> [f[i] EXCEPT !.id = i]]

AnySeqs ==
    UNION { {WithIds(f) : f \in [1..n -> AnyTemplates]} : n \in 0..MaxAnyLen }

InitAny ==
    /\ variant \in {"base", "upload", "lucky"}
    /\ input = <<>>
    /\ contentBlocks = <<>>
    /\ messages \in AnySeqs
    /\ firstTokenReceived = firstTokenEffect(messages, 0, FALSE)
    /\ prevMessageLength = Len(messages)
    /\ lastError = Undefined
    /\ artifactContext = {}
    /\ threadId = "t1"
    /\ isLoading = FALSE
    /\ error = NoError
    /\ ui = NoUi
    /\ nextId = Len(messages) + 1
    /\ nextCall = 3
    /\ dispatched = 0
    /\ lastDispatch = NoDispatch
    /\ streamContext = NoContext
    /\ toasts = <<>>
    /\ delivered = <<>>
    /\ notified = <<>>
    /\ fault = "none"
    /\ lastOp = Other

\* the user types and submits; each run ends without an agent message
NextAny ==
    \/ handleSubmit
    \/ handleSubmitUpload
    \/ handleLuckyClick
    \/ \E text \in Inputs : setInput(text)
    \/ ChannelDone

SpecAny == InitAny /\ [][NextAny]_vars

---------------------------------------------------------------------------
(* The error path: a text is typed; the stream sets and clears its error   *)
(* in any order while the user submits, stops and starts a new thread.     *)

\* message texts of the errors of the error path
ErrTexts == {"E1", "E2", "", Undefined}

\* index.tsx:126: the message texts for which !message holds
BlankTexts == {"", Undefined}

InitErr ==
    /\ variant \in {"base", "upload", "lucky"}
    /\ input = <<" ">> \o Hello \o <<"\n">>
    /\ contentBlocks = <<>>
    /\ firstTokenReceived = FALSE
    /\ prevMessageLength = 0
    /\ lastError = Undefined
    /\ artifactContext = {}
    /\ threadId = "null"
    /\ messages = <<>>
    /\ isLoading = FALSE
    /\ error = NoError
    /\ ui = NoUi
    /\ nextId = 1
    /\ nextCall = 1
    /\ dispatched = 0
    /\ lastDispatch = NoDispatch
    /\ streamContext = NoContext
    /\ toasts = <<>>
    /\ delivered = <<>>
    /\ notified = <<>>
    /\ fault = "none"
    /\ lastOp = Other

NextErr ==
    \/ handleSubmit
    \/ handleSubmitUpload
    \/ setThreadId
    \/ stop
    \/ ChannelThreadId
    \/ ChannelDone
    \/ \E text \in ErrTexts, throws \in BOOLEAN : ChannelError(text, throws)
    \/ ChannelErrorCleared

SpecErr == InitErr /\ [][NextErr]_vars

---------------------------------------------------------------------------
(* The specifications of the main content area *)

\* one run of each edition, with UI payloads arriving and being removed
NextUi ==
    \/ handleSubmit
    \/ handleSubmitUpload
    \/ setThreadId
    \/ stop
    \/ ChannelThreadId
    \/ ChannelAi(0)
    \/ ChannelDone
    \/ \E name \in UiNames : ChannelUi(name)
    \/ \E i \in 1..MaxUi : ChannelUiRemoved(i)

SpecUi == InitErr /\ [][NextUi]_vars

\* up to MaxRuns runs of each edition in one or more conversations, with
\* snapshots of messages arriving
NextView ==
    \/ handleSubmit
    \/ handleSubmitUpload
    \/ (dispatched < MaxRuns /\ handleLuckyClick)
    \/ setThreadId
    \/ stop
    \/ ChannelThreadId
    \/ ChannelAi(0)
    \/ \E i \in 1..MaxMessages : ChannelAiWithout(i)
    \/ ChannelDone

SpecView == InitErr /\ [][NextView]_vars

---------------------------------------------------------------------------
(* Vocabulary of the properties.                                           *)

\* positions of the tool messages of S that carry call id c
Answers(S, c) ==
    {j \in 1..Len(S) : S[j].type = "tool" /\ S[j].tool_call_id = c}

\* position of the first human message of S after position i, or Len(S) + 1
NextHuman(S, i) ==
    IF \E j \in (i + 1)..Len(S) : S[j].type = "human"
    THEN CHOOSE j \in (i + 1)..Len(S) :
            /\ S[j].type = "human"
            /\ \A h \in (i + 1)..(j - 1) : S[h].type # "human"
    ELSE Len(S) + 1

\* I1 of a sequence S that ends with the newly appended human message:
\* each call of each ai message has exactly one answer, after the ai
\* message and before the last message
I1(S) ==
    \A i \in 1..Len(S) :
        S[i].type = "ai" =>
            \A k \in 1..Len(S[i].tool_calls) :
                /\ Cardinality(Answers(S, S[i].tool_calls[k])) = 1
                /\ \A j \in Answers(S, S[i].tool_calls[k]) :
                      i < j /\ j < Len(S)

\* P1 of a sequence S: each call of each ai message has exactly one answer,
\* and it lies between the ai message and the next human message after it
P1(S) ==
    \A i \in 1..Len(S) :
        S[i].type = "ai" =>
            \A k \in 1..Len(S[i].tool_calls) :
                /\ Cardinality(Answers(S, S[i].tool_calls[k])) = 1
                /\ \A j \in Answers(S, S[i].tool_calls[k]) :
                      i < j /\ j < NextHuman(S, i)

\* a sequence the protocol allows as confirmed history: no call id is
\* emitted twice, each tool message answers one earlier call that was not
\* answered before it, and each human message comes after the answers to
\* all calls emitted before it
WellFormed(S) ==
    /\ \A i \in 1..Len(S) : S[i].type = "ai" =>
          /\ \A k1, k2 \in 1..Len(S[i].tool_calls) :
                k1 # k2 => S[i].tool_calls[k1] # S[i].tool_calls[k2]
          /\ \A i2 \in 1..Len(S) : (i2 # i /\ S[i2].type = "ai") =>
                \A k1 \in 1..Len(S[i].tool_calls),
                   k2 \in 1..Len(S[i2].tool_calls) :
                    S[i].tool_calls[k1] # S[i2].tool_calls[k2]
    /\ \A j \in 1..Len(S) : S[j].type = "tool" =>
          /\ \E i \in 1..(j - 1) :
                /\ S[i].type = "ai"
                /\ \E k \in 1..Len(S[i].tool_calls) :
                      S[i].tool_calls[k] = S[j].tool_call_id
          /\ \A j2 \in 1..(j - 1) :
                S[j2].type = "tool" => S[j2].tool_call_id # S[j].tool_call_id
    /\ \A h \in 1..Len(S) : S[h].type = "human" =>
          \A i \in 1..(h - 1) : S[i].type = "ai" =>
              \A k \in 1..Len(S[i].tool_calls) :
                  \E j \in (i + 1)..(h - 1) :
                      j \in Answers(S, S[i].tool_calls[k])

\* the calls of the ai message at position i that no later tool message of
\* S answers, in the order the message lists them
UnansweredAt(S, i) ==
    IF S[i].type = "ai"
    THEN SelectSeq(S[i].tool_calls,
                   LAMBDA c : \A j \in (i + 1)..Len(S) : j \notin Answers(S, c))
    ELSE <<>>

\* the unanswered calls of S from position i on, in emission order
RECURSIVE UnansweredFrom(_, _)
UnansweredFrom(S, i) ==
    IF i > Len(S) THEN <<>>
    ELSE UnansweredAt(S, i) \o UnansweredFrom(S, i + 1)

\* the state right after a submit handler went past its early return
JustSubmitted == lastOp.accepted

\* a step in which a submit handler went past its early return
AcceptedStep == lastOp'.accepted /\ lastOp' # lastOp

\* a step in which the named handler ran
HandlerStep(name) == lastOp'.op = name /\ lastOp' # lastOp

---------------------------------------------------------------------------
(* C1 *)

\* C1: whenever a submit handler has dispatched, the sequence it read from
\* the stream followed by the dispatched increment satisfies I1: every call
\* of every ai message has exactly one tool message with its call id, and
\* that message lies after the ai message and before the new human message,
\* which is the last one.
C1_DispatchKeepsI1 ==
    dispatched > 0 =>
        /\ I1(lastDispatch.base \o lastDispatch.messages)
        /\ lastDispatch.messages[Len(lastDispatch.messages)].type = "human"

\* a submit has just dispatched an increment that answers two calls left
\* open by the run before it
C1_Witness ==
    /\ JustSubmitted
    /\ Len(lastDispatch.messages) = 3
    /\ \E i \in 1..Len(lastDispatch.base) :
          /\ lastDispatch.base[i].type = "ai"
          /\ Len(lastDispatch.base[i].tool_calls) = 2

---------------------------------------------------------------------------
(* C2 *)

\* C2 as claimed: for every message sequence, once a submit has placed the
\* synthetic results and the new human message at its end, every call has
\* exactly one matching tool message, before the next human message that
\* follows the call.
C2_AnySequence ==
    dispatched > 0 => P1(lastDispatch.base \o lastDispatch.messages)

\* C2 as amended: the same, for every message sequence in which no call id
\* is emitted twice, each tool message answers one earlier call not
\* answered before it, and each human message already there comes after
\* the answers to all calls emitted before it.
C2_WellFormedSequence ==
    (dispatched > 0 /\ WellFormed(lastDispatch.base)) =>
        P1(lastDispatch.base \o lastDispatch.messages)

\* a submit on a well-formed sequence holding a human message, an answered
\* call and an unanswered call
C2_Witness ==
    /\ JustSubmitted
    /\ WellFormed(lastDispatch.base)
    /\ Len(lastDispatch.base) = 3
    /\ lastDispatch.base[1].type = "human"
    /\ lastDispatch.base[2].type = "ai"
    /\ Len(lastDispatch.base[2].tool_calls) = 2
    /\ lastDispatch.base[3].type = "tool"
    /\ Len(lastDispatch.messages) = 2

---------------------------------------------------------------------------
(* C3 *)

\* C3: for every message sequence the Reconciler returns tool messages
\* only, one for each call of an ai message that no later tool message of
\* the sequence answers, none for an answered call, in the order the calls
\* were emitted; this holds of the sequence in the stream and of the
\* Reconciler's output that the latest submit dispatched.
C3_ReconcilerOutput ==
    /\ LET out == ensureToolCallsHaveResponses(messages, nextId)
       IN  /\ \A k \in 1..Len(out) : out[k].type = "tool"
           /\ [k \in 1..Len(out) |-> out[k].tool_call_id]
                 = UnansweredFrom(messages, 1)
    /\ dispatched > 0 =>
          LET n == Len(lastDispatch.messages) - 1
          IN  /\ \A k \in 1..n : lastDispatch.messages[k].type = "tool"
              /\ [k \in 1..n |-> lastDispatch.messages[k].tool_call_id]
                    = UnansweredFrom(lastDispatch.base, 1)

\* a submit on a sequence whose first ai message has one call answered and
\* one not, and whose later ai message repeats the answered call id: the
\* Reconciler returned the results for call 2 and call 1, in that order
C3_Witness ==
    /\ JustSubmitted
    /\ Len(lastDispatch.base) = 3
    /\ lastDispatch.base[1].tool_calls = <<1, 2>>
    /\ lastDispatch.base[2].type = "tool"
    /\ lastDispatch.base[2].tool_call_id = 1
    /\ lastDispatch.base[3].tool_calls = <<1>>
    /\ Len(lastDispatch.messages) = 3
    /\ lastDispatch.messages[1].tool_call_id = 2
    /\ lastDispatch.messages[2].tool_call_id = 1

---------------------------------------------------------------------------
(* C4 *)

\* C4 (P2): for every message sequence S the Reconciler run on S followed
\* by its own output for S returns nothing; and a submit that follows an
\* accepted submit with no agent message in between dispatches the new
\* human message alone.
C4_ReconcileTwice ==
    /\ ensureToolCallsHaveResponses(
           messages \o ensureToolCallsHaveResponses(messages, nextId),
           nextId) = <<>>
    /\ dispatched >= 2 => Len(lastDispatch.messages) = 1

\* the second of two submits in a row, the first of which dispatched a
\* synthetic result
C4_Witness ==
    /\ JustSubmitted
    /\ dispatched = 2
    /\ \E i \in 1..Len(lastDispatch.base) :
          /\ lastDispatch.base[i].type = "tool"
          /\ lastDispatch.base[i].text = SkippedText

---------------------------------------------------------------------------
(* C5 *)

\* the ids of the messages of S
Ids(S) == {S[i].id : i \in 1..Len(S)}

\* C5: every step in which a submit handler goes past its early return
\* calls stream.submit exactly once, with the Reconciler's output for the
\* sequence in the stream followed by exactly one new human message; and a
\* submit on a sequence [human, ai with one call c] dispatches
\* [tool result for c, human].
C5_OneIncrement ==
    /\ [][AcceptedStep =>
            /\ dispatched' = dispatched + 1
            /\ lastDispatch'.base = messages
            /\ LET inc == lastDispatch'.messages
                   n == Len(inc)
               IN  /\ n >= 1
                   /\ inc[n].type = "human"
                   /\ inc[n].id \notin Ids(messages)
                   /\ \A k \in 1..(n - 1) : inc[k].id # inc[n].id
                   /\ SubSeq(inc, 1, n - 1)
                         = ensureToolCallsHaveResponses(messages, nextId + 1)
         ]_vars
    /\ [][dispatched' # dispatched => AcceptedStep]_vars
    /\ [](( /\ JustSubmitted
            /\ Len(lastDispatch.base) = 2
            /\ lastDispatch.base[1].type = "human"
            /\ lastDispatch.base[2].type = "ai"
            /\ Len(lastDispatch.base[2].tool_calls) = 1 )
          => /\ Len(lastDispatch.messages) = 2
             /\ lastDispatch.messages[1].type = "tool"
             /\ lastDispatch.messages[1].text = SkippedText
             /\ lastDispatch.messages[1].tool_call_id
                   = lastDispatch.base[2].tool_calls[1]
             /\ lastDispatch.messages[2].type = "human")

\* the end-to-end scenario: the second submit, on [H1, AI1 with call c1],
\* has dispatched [ToolResult(c1), H2]
C5_Witness ==
    /\ JustSubmitted
    /\ dispatched = 2
    /\ Len(lastDispatch.base) = 2
    /\ lastDispatch.base[1].type = "human"
    /\ lastDispatch.base[2].tool_calls = <<1>>
    /\ Len(lastDispatch.messages) = 2
    /\ lastDispatch.messages[1].tool_call_id = 1
    /\ lastDispatch.messages[2].text = Hello

---------------------------------------------------------------------------
(* C6 *)

\* C6 (P6/I3): the optimistic projection keeps every message of the
\* snapshot it is applied to, unchanged and in place, and appends the
\* synthetic tool results and then the new human message, which carries
\* the text submitted; no later step of the stream changes a message that
\* is already there.
C6_ProjectionAppends ==
    /\ [][AcceptedStep =>
            /\ Len(messages') > Len(messages)
            /\ SubSeq(messages', 1, Len(messages)) = messages
            /\ messages' = lastDispatch'.projected
            /\ LET suffix == SubSeq(messages', Len(messages) + 1,
                                    Len(messages'))
                   n == Len(suffix)
               IN  /\ \A k \in 1..(n - 1) : suffix[k].type = "tool"
                   /\ suffix[n].type = "human"
                   /\ lastOp'.op = "handleSubmit" =>
                         trim(suffix[n].text) = trim(input)
         ]_vars
    /\ [][/\ Len(messages') >= Len(messages)
          /\ SubSeq(messages', 1, Len(messages)) = messages]_vars

\* confirmed [H0, AI0], submit of " hello\n": the projection was
\* [H0, AI0, H1] with H1 carrying "hello", and the snapshot
\* [H0, AI0, H1, AI1] has arrived
C6_Witness ==
    /\ variant = "base"
    /\ Len(messages) = 4
    /\ messages[4].type = "ai"
    /\ Len(lastDispatch.base) = 2
    /\ lastDispatch.base[1].type = "human"
    /\ lastDispatch.base[2].type = "ai"
    /\ Len(lastDispatch.projected) = 3
    /\ lastDispatch.projected[3].type = "human"
    /\ lastDispatch.projected[3].text = Hello
    /\ lastDispatch.projected = SubSeq(messages, 1, 3)

---------------------------------------------------------------------------
(* C7 *)

\* everything a submit handler may write
submitState ==
    <<input, contentBlocks, firstTokenReceived, prevMessageLength, lastError,
      artifactContext, threadId, messages, isLoading, error, ui, nextId,
      dispatched, lastDispatch, streamContext, toasts, delivered, notified,
      fault>>

\* C7: a form submit whose text is empty or white space only and whose
\* attachment list is empty dispatches nothing and leaves the input
\* buffer, the attachments, the first-token flag and the loading flag as
\* they are, in every state; a form submit with empty text and at least
\* one attachment, while not loading, is accepted.
C7_BlankSubmitIsNoOp ==
    /\ [][(/\ HandlerStep("handleSubmit")
           /\ Len(trim(input)) = 0
           /\ Len(contentBlocks) = 0)
          => /\ ~lastOp'.accepted
             /\ UNCHANGED submitState]_vars
    /\ [][(/\ HandlerStep("handleSubmit")
           /\ Len(trim(input)) = 0
           /\ Len(contentBlocks) > 0
           /\ ~isLoading)
          => /\ lastOp'.accepted
             /\ dispatched' = dispatched + 1]_vars

\* a form submit with white space only has just been rejected while the
\* stream was not loading
C7_Witness ==
    /\ lastOp.op = "handleSubmit"
    /\ ~lastOp.accepted
    /\ ~isLoading
    /\ input = <<" ", "\n">>
    /\ contentBlocks = <<>>

---------------------------------------------------------------------------
(* C8 *)

\* C8: while the stream is loading no step dispatches, and a step of
\* either submit entry point (the form, the lucky-prompt button) changes
\* nothing the component or the stream holds; so a submission is
\* dispatched only when none is in flight.
C8_SingleFlight ==
    /\ [][isLoading => dispatched' = dispatched]_vars
    /\ [][(/\ isLoading
           /\ \/ HandlerStep("handleSubmit")
              \/ HandlerStep("handleLuckyClick"))
          => /\ ~lastOp'.accepted
             /\ UNCHANGED submitState]_vars
    /\ [][dispatched' # dispatched => (~isLoading /\ isLoading')]_vars

\* the lucky-prompt button has just been rejected while a run was loading
C8_Witness ==
    /\ lastOp.op = "handleLuckyClick"
    /\ ~lastOp.accepted
    /\ isLoading
    /\ dispatched = 1

---------------------------------------------------------------------------
(* C9 *)

\* C9: in every reachable state in which the stream is not loading, after
\* a run that ended, was stopped or failed alike, a form submit whose text
\* is not white space only is accepted and dispatches exactly one
\* increment.
C9_SubmitWhenIdle ==
    [][(/\ HandlerStep("handleSubmit")
        /\ ~isLoading
        /\ Len(trim(input)) > 0)
       => /\ lastOp'.accepted
          /\ dispatched' = dispatched + 1
          /\ isLoading']_vars

\* a form submit has just been accepted right after the stop button ended
\* the run before it
C9_Witness ==
    /\ lastOp.op = "handleSubmit"
    /\ lastOp.accepted
    /\ lastOp.after = "stop"
    /\ dispatched = 2
    /\ isLoading

---------------------------------------------------------------------------
(* C10 *)

\* C10: the payload a submit dispatches carries the artifact context if
\* and only if the artifact context has at least one key at that time,
\* and then it is that mapping; with no key the context is undefined.
C10_ContextOnlyIfNonEmpty ==
    [][AcceptedStep =>
          /\ lastDispatch'.context.defined <=> Cardinality(artifactContext) > 0
          /\ lastDispatch'.context.defined =>
                lastDispatch'.context.value = artifactContext
          /\ ~lastDispatch'.context.defined =>
                lastDispatch'.context = NoContext
      ]_vars

\* a submit has just dispatched a payload carrying a context of one key
C10_Witness ==
    /\ JustSubmitted
    /\ artifactContext = {<<"k", "v">>}
    /\ lastDispatch.context = [defined |-> TRUE, value |-> {<<"k", "v">>}]

---------------------------------------------------------------------------
(* C11 *)

\* C11: right after every accepted submission, whichever entry point
\* dispatched it (the form or the lucky-prompt button), the input buffer is
\* empty and the attachment list is empty, in the step of the dispatch.
C11_BuffersClearedOnSubmit ==
    JustSubmitted => (input = <<>> /\ contentBlocks = <<>>)

---------------------------------------------------------------------------
(* C12 *)

\* the stream has set a new error object: the error effect runs on it
ErrorArrives == error' # error /\ error' # NoError

\* C12 as claimed: when a snapshot carries an error whose message text
\* differs from lastError.current, the cell is set to that text and exactly
\* one notification carrying that text is emitted for that snapshot.
C12_DifferentTextNotified ==
    [][(ErrorArrives /\ error'.message # lastError)
       => /\ lastError' = error'.message
          /\ toasts' = <<error'.message>>
          /\ notified' = Append(notified, error'.message)]_vars

\* C12 as amended: the same for a message text that is not empty; an error
\* whose message text is empty or missing leaves the cell as it is and
\* notifies nothing.
C12_NonEmptyDifferentTextNotified ==
    /\ [][(/\ ErrorArrives
           /\ error'.message # lastError
           /\ error'.message \notin BlankTexts)
          => /\ lastError' = error'.message
             /\ toasts' = <<error'.message>>
             /\ notified' = Append(notified, error'.message)]_vars
    /\ [][(ErrorArrives /\ error'.message \in BlankTexts)
          => /\ lastError' = lastError
             /\ toasts' = <<>>
             /\ notified' = notified]_vars

\* "E1" was reported; an error with text "E2" has just arrived, the cell
\* holds "E2" and one notification carrying "E2" was emitted for it
C12_Witness ==
    /\ lastOp = Noted("ChannelError", "E1")
    /\ error.message = "E2"
    /\ lastError = "E2"
    /\ toasts = <<"E2">>
    /\ delivered = <<"E1", "E2">>
    /\ notified = <<"E1", "E2">>

---------------------------------------------------------------------------
(* C13 *)

\* C13: when a snapshot carries an error whose message text is equal, as a
\* string, to lastError.current, no notification is emitted and the cell
\* is unchanged, also when the error is another error object.
C13_SameTextSuppressed ==
    [][(ErrorArrives /\ error'.message = lastError)
       => /\ error'.id # error.id
          /\ lastError' = lastError
          /\ toasts' = <<>>
          /\ notified' = notified]_vars

\* "E1" was reported and a second error object with text "E1" has just
\* arrived: still one notification
C13_Witness ==
    /\ lastOp = Noted("ChannelError", "E1")
    /\ error = [id |-> 2, message |-> "E1"]
    /\ lastError = "E1"
    /\ toasts = <<>>
    /\ delivered = <<"E1", "E1">>
    /\ notified = <<"E1">>

---------------------------------------------------------------------------
(* C14 *)

\* C14: when a snapshot carries no error after one that carried an error,
\* the cell is cleared and no notification is emitted; and the text that
\* was in the cell, arriving again right after, is notified again.
C14_ClearedWhenNoError ==
    /\ [][(error # NoError /\ error' = NoError)
          => /\ lastError' = Undefined
             /\ toasts' = <<>>]_vars
    /\ [](error = NoError => lastError = Undefined)
    /\ [][(/\ lastOp.op = "ChannelErrorCleared"
           /\ lastOp.after # Undefined
           /\ ErrorArrives
           /\ error'.message = lastOp.after)
          => /\ lastError' = error'.message
             /\ toasts' = <<error'.message>>]_vars

\* "E1" was reported, a snapshot without error cleared the cell, and "E1"
\* has just arrived again and was notified again
C14_Witness ==
    /\ lastOp = Noted("ChannelErrorAfterCleared", "E1")
    /\ error.message = "E1"
    /\ lastError = "E1"
    /\ toasts = <<"E1">>
    /\ delivered = <<"E1">>

---------------------------------------------------------------------------
(* C15 *)

\* the four error texts of P3, in the order of their delivery
P3Texts == <<"E1", "E1", "E2", "E1">>

\* C15 as claimed (P3): after errors with the texts "E1", "E1", "E2", "E1"
\* arrived in that order with no snapshot without error in between,
\* exactly 2 notifications were emitted, carrying "E1" then "E2", and the
\* last "E1" was notified.
C15_P3ExactlyTwo ==
    delivered = P3Texts =>
        /\ Len(notified) = 2
        /\ notified[1] = "E1"
        /\ notified[2] = "E2"
        /\ toasts = <<"E1">>

\* C15 as amended: the first three errors emit exactly 2 notifications,
\* carrying "E1" then "E2" (the second "E1" is suppressed), and the last
\* "E1" is notified again: 3 notifications in all, "E1", "E2", "E1".
C15_P3ThreeNotifications ==
    /\ delivered = SubSeq(P3Texts, 1, 1) => notified = <<"E1">>
    /\ delivered = SubSeq(P3Texts, 1, 2) =>
          (notified = <<"E1">> /\ toasts = <<>>)
    /\ delivered = SubSeq(P3Texts, 1, 3) =>
          (notified = <<"E1", "E2">> /\ toasts = <<"E2">>)
    /\ delivered = P3Texts =>
          (notified = <<"E1", "E2", "E1">> /\ toasts = <<"E1">>)

\* the four errors of P3 have arrived
C15_Witness ==
    /\ delivered = P3Texts
    /\ notified = <<"E1", "E2", "E1">>
    /\ lastError = "E1"
    /\ lastOp = Noted("ChannelError", "E2")

---------------------------------------------------------------------------
(* C16 *)

\* C16 as claimed: within one conversation no error text is notified more
\* than once.
C16_OncePerText ==
    \A i, j \in 1..Len(notified) : i # j => notified[i] # notified[j]

\* C16 as amended: no error text is notified twice in a row: between two
\* notifications of the same text there is a notification of another text
\* or a snapshot without error; and no more notifications are emitted
\* than errors arrived.
C16_NeverTwiceInARow ==
    /\ \A i \in 1..(Len(notified) - 1) : notified[i] # notified[i + 1]
    /\ Len(notified) <= Len(delivered)
    /\ \A i \in 1..Len(notified) :
          \E k \in 1..Len(delivered) : delivered[k] = notified[i]
    /\ notified # <<>> => notified[Len(notified)] = lastError

\* "E1", "E2", "E2", "E1" arrived: "E2" was notified once, "E1" twice
C16_Witness ==
    /\ delivered = <<"E1", "E2", "E2", "E1">>
    /\ notified = <<"E1", "E2", "E1">>

---------------------------------------------------------------------------
(* C17 *)

\* the active conversation changes: "New thread" leaves a thread
ConversationChanges == threadId # "null" /\ threadId' = "null"

---------------------------------------------------------------------------
(* C18 *)

\* C18: a failure while the notification is formatted or emitted never
\* leaves the error effect: the component never crashes, the failed
\* attempt leaves the text recorded and the rest of the state as an
\* attempt that succeeded, and after it snapshots, submits and
\* cancellations are handled as before.
C18_NotificationFailureSwallowed ==
    /\ [](~crashed)
    /\ [][(ErrorArrives /\ fault' = "caught")
          => /\ lastError' = error'.message
             /\ toasts' = <<error'.message>>
             /\ UNCHANGED <<messages, isLoading, input, contentBlocks,
                            threadId, dispatched>>]_vars
    /\ [](fault = "caught"
          => /\ ENABLED ChannelErrorCleared
             /\ ENABLED (handleSubmit \/ handleSubmitUpload)
             /\ (variant # "upload" /\ ~rejectsSubmit(input, isLoading))
                   => ENABLED (handleSubmit
                               /\ lastOp' = Op("handleSubmit", TRUE))
             /\ ENABLED setThreadId
             /\ (isLoading => ENABLED stop)
             /\ (isLoading => ENABLED ChannelDone)
             /\ (Len(delivered) < MaxErrors
                   => ENABLED ChannelError("E2", FALSE)))

\* toast.error threw while "E1" was notified during a run, and the stop
\* button then cancelled the run
C18_Witness ==
    /\ fault = "caught"
    /\ lastOp = Ended("stop")
    /\ lastError = "E1"
    /\ error.message = "E1"
    /\ ~isLoading

---------------------------------------------------------------------------
(* C19 *)

\* positions of the payloads of the current snapshot that carry the
\* reserved name
MarkerPositions ==
    {i \in 1..Len(ui.items) : ui.defined /\ ui.items[i].name = MarkerName}

\* C19 (P5): FullScreenCustomComponents returns null when the snapshot has
\* no payload with the reserved name, also when values.ui is absent, and
\* otherwise the payload with the reserved name at the greatest position
\* of the list, whatever other payloads stand before or after it.
C19_SelectorReturnsLastMarker ==
    /\ FullScreenCustomComponents(NoUi) = NoComponent
    /\ MarkerPositions = {} => FullScreenCustomComponents(ui) = NoComponent
    /\ MarkerPositions # {} =>
          \E i \in MarkerPositions :
              /\ \A j \in MarkerPositions : j <= i
              /\ FullScreenCustomComponents(ui) = ui.items[i]

\* two payloads with the reserved name arrived, A (id 2) then B (id 1), and
\* then another payload: B is selected
C19_Witness ==
    /\ ui.defined
    /\ ui.items = << [id |-> 2, name |-> MarkerName],
                     [id |-> 1, name |-> MarkerName],
                     [id |-> 3, name |-> "other"] >>
    /\ FullScreenCustomComponents(ui) = [id |-> 1, name |-> MarkerName]

---------------------------------------------------------------------------
(* C20 *)

\* C20: in every reachable state the main area is in mode FullScreen
\* exactly when FullScreenCustomComponents returns a payload for the
\* current snapshot, whatever the thread, the messages and the run are;
\* the payload shown is the one it returns; and FullScreen is left only
\* by a snapshot for which it returns null.
C20_FullScreenIffSelected ==
    /\ [](mainContent.mode = "FullScreen"
          <=> FullScreenCustomComponents(ui) # NoComponent)
    /\ [](mainContent.shown = FullScreenCustomComponents(ui))
    /\ [][(mainContent.mode = "FullScreen"
           /\ mainContent'.mode # "FullScreen")
          => /\ ui' # ui
             /\ FullScreenCustomComponents(ui') = NoComponent]_vars

\* a run is waiting for its first token, and the second of two payloads
\* with the reserved name is shown full screen instead of the spinner
C20_Witness ==
    /\ chatStarted
    /\ isLoading
    /\ ~firstTokenReceived
    /\ ui.items = << [id |-> 1, name |-> MarkerName],
                     [id |-> 2, name |-> MarkerName] >>
    /\ mainContent = [mode |-> "FullScreen",
                      shown |-> [id |-> 2, name |-> MarkerName]]

---------------------------------------------------------------------------
(* C21 *)

\* C21: from the Empty view (no thread id, no messages, no payload with
\* the reserved name) an accepted submit moves the view to
\* AwaitingFirstToken in the same step: the optimistic sequence is the
\* human message alone, the chat counts as started, and the generating
\* indicator is shown because the stream is loading.
C21_EmptyToAwaitingFirstToken ==
    [][(mainContent.mode = "Empty" /\ AcceptedStep)
       => /\ mainContent'.mode = "AwaitingFirstToken"
          /\ Len(messages') = 1
          /\ messages'[1].type = "human"
          /\ chatStarted'
          /\ isLoading'
          /\ ~firstTokenReceived']_vars

\* the second run of a behaviour: after an answered run and "New thread",
\* the lucky button was clicked in the Empty view
C21_Witness ==
    /\ lastOp.op = "handleLuckyClick"
    /\ lastOp.accepted
    /\ lastOp.after = "setThreadId"
    /\ dispatched = 2
    /\ threadId = "null"
    /\ Len(messages) = 1
    /\ ~hasCustomUI
    /\ mainContent.mode = "AwaitingFirstToken"

---------------------------------------------------------------------------
(* C22 *)

\* the most recent message of the next snapshot is an ai message
LastBecomesAi ==
    /\ messages' # messages
    /\ Len(messages') # 0
    /\ messages'[Len(messages')].type = "ai"

\* the view waits for the first token and the step leaves the stream
\* loading and no payload with the reserved name selected
StillAwaited ==
    /\ mainContent.mode = "AwaitingFirstToken"
    /\ isLoading'
    /\ ~hasCustomUI'

\* C22 as claimed: after an accepted submit the view stays in
\* AwaitingFirstToken until the most recent message becomes an ai message,
\* and moves to Streaming/Idle at the first snapshot whose most recent
\* message is an ai message, whether or not the length of the sequence
\* changed with that snapshot.
C22_LeavesAtFirstAiSnapshot ==
    /\ [][(StillAwaited /\ ~LastBecomesAi)
          => mainContent'.mode = "AwaitingFirstToken"]_vars
    /\ [][(StillAwaited /\ LastBecomesAi)
          => mainContent'.mode = "Streaming/Idle"]_vars

\* C22 as amended: while the stream is loading and no payload with the
\* reserved name is selected, the view stays in AwaitingFirstToken until
\* a snapshot arrives whose most recent message is an ai message and
\* whose length differs from the length of the sequence before it, and
\* moves to Streaming/Idle with that snapshot; a snapshot of the same
\* length leaves the view in AwaitingFirstToken.
C22_LeavesAtFirstLongerAiSnapshot ==
    /\ [](prevMessageLength = Len(messages))
    /\ [][(StillAwaited
           /\ ~(LastBecomesAi /\ Len(messages') # Len(messages)))
          => mainContent'.mode = "AwaitingFirstToken"]_vars
    /\ [][(StillAwaited /\ LastBecomesAi /\ Len(messages') # Len(messages))
          => mainContent'.mode = "Streaming/Idle"]_vars

\* while the view waited, a snapshot of the same length ending with an ai
\* message arrived, and the view still waits
C22_Witness ==
    /\ lastOp = Noted("ChannelAiWithout", "waiting")
    /\ messages[Len(messages)].type = "ai"
    /\ isLoading
    /\ mainContent.mode = "AwaitingFirstToken"

---------------------------------------------------------------------------
(* C23 *)

\* C23: whenever a submission is in flight the stop button is shown and
\* stop can be taken; a stop taken while the view is AwaitingFirstToken
\* ends the loading and the view leaves AwaitingFirstToken in that step,
\* with no message arriving and no first token noted, and the messages
\* shown, the optimistic human message among them, stay as they are.
C23_StopLeavesAwaitingFirstToken ==
    /\ [](isLoading => (stopShown /\ ENABLED stop))
    /\ [][(mainContent.mode = "AwaitingFirstToken" /\ HandlerStep("stop"))
          => /\ ~isLoading'
             /\ mainContent'.mode \notin {"AwaitingFirstToken", "Empty"}
             /\ ~firstTokenReceived'
             /\ messages' = messages]_vars

\* the first run was stopped while the view waited for the first token:
\* the optimistic human message is still the only message
C23_Witness ==
    /\ lastOp = Ended("stop")
    /\ ~isLoading
    /\ ~firstTokenReceived
    /\ Len(messages) = 1
    /\ messages[1].type = "human"
    /\ dispatched = 1
    /\ mainContent.mode = "Streaming/Idle"

---------------------------------------------------------------------------
(* C24 *)

\* sequences optimisticValues may be applied to after a submit: the one
\* seen at submit time, and snapshots that differ from it
ProjectionBases ==
    { lastDispatch.base,
      <<>>,
      SubSeq(lastDispatch.base, 1, Len(lastDispatch.base) - 1),
      lastDispatch.base \o <<AiMsg(nextId, <<>>)>> }

\* C24: after every accepted submit, what optimisticValues appends is the
\* dispatched increment itself, the same messages with the same ids in
\* the same order: the tool results computed once from the sequence seen
\* at submit time, then the new human message; also when the sequence it
\* is applied to is another one than the sequence seen at submit time.
C24_ProjectionAppendsIncrement ==
    JustSubmitted =>
        LET inc == lastDispatch.messages
            toolMessages == SubSeq(inc, 1, Len(inc) - 1)
            human == inc[Len(inc)]
        IN  /\ human.type = "human"
            /\ toolMessages =
                  ensureToolCallsHaveResponses(lastDispatch.base,
                                               human.id + 1)
            /\ lastDispatch.projected = lastDispatch.base \o inc
            /\ \A p \in ProjectionBases :
                  optimisticValues([messages |-> p, ui |-> ui,
                                    context |-> streamContext],
                                   toolMessages, human,
                                   lastDispatch.context).messages
                  = p \o inc

\* a submit on a sequence with an unanswered call: the increment is the
\* synthetic result and the human message, and the projection ends with
\* these two
C24_Witness ==
    /\ JustSubmitted
    /\ Len(lastDispatch.messages) = 2
    /\ lastDispatch.messages[1].type = "tool"
    /\ Len(lastDispatch.base) > 0
    /\ lastDispatch.projected = lastDispatch.base \o lastDispatch.messages
    /\ messages = lastDispatch.projected

---------------------------------------------------------------------------
(* C25 *)

\* C25: an error whose message text is empty or missing is not notified
\* and leaves lastError.current as it was, so that an error that follows
\* it with the text held in the cell is still suppressed.
C25_BlankTextKeepsCell ==
    /\ [][(ErrorArrives /\ error'.message \in BlankTexts)
          => /\ lastError' = lastError
             /\ toasts' = <<>>
             /\ notified' = notified]_vars
    /\ [][(/\ error # NoError
           /\ error.message \in BlankTexts
           /\ lastError # Undefined
           /\ ErrorArrives
           /\ error'.message = lastError)
          => /\ lastError' = lastError
             /\ toasts' = <<>>
             /\ notified' = notified]_vars

\* "E1" was notified, then an error without message text arrived, then
\* "E1" again: one notification in all
C25_Witness ==
    /\ delivered = <<"E1", Undefined, "E1">>
    /\ notified = <<"E1">>
    /\ lastError = "E1"
    /\ toasts = <<>>
    /\ error.message = "E1"

=============================================================================
